---- MODULE Spec2Model ----
(***************************************************************************)
(* Job portal backend: keyword extraction and match scoring                *)
(* (backend/ai_utils.py) and alert notification on job creation            *)
(* (backend/routes.py, backend/email_utils.py), and the accounts, jobs and  *)
(* applications the routes of backend/routes.py keep in the database.      *)
(*                                                                         *)
(* A text is a sequence of characters; a character is a one-element        *)
(* string, or a name standing for one code point outside ASCII.            *)
(* Python's None is the value None below.                                  *)
(***************************************************************************)
EXTENDS Integers, Sequences, FiniteSets, TLC

VARIABLES
    jobText,    \* first argument of the text functions under test
    candText,   \* second argument of calculate_match_score
    kw,         \* get_keywords(jobText), a list of tokens
    kw2,        \* get_keywords of the space-joined kw
    score,      \* calculate_match_score(jobText, candText)
    score2,     \* calculate_match_score(candText, jobText)
    calls,      \* which of the calls above have returned
    alerts,     \* db.alerts, in insertion order
    jobs,       \* db.jobs, in insertion order
    outbox,     \* the calls of send_job_alert made for req, with their outcome
    req,        \* the create_job request in flight, or the last one answered
    users,      \* db.users, in insertion order
    applications, \* db.applications, in insertion order
    oids,       \* how many documents each collection has been given an _id for
    tokens,     \* the subjects ("sub") of the access tokens issued
    inflight    \* apply_to_job requests followed from one awaited call to the next

textVars == <<jobText, candText, kw, kw2, score, score2, calls>>
portalVars == <<users, applications, tokens, inflight>>
serverVars == <<alerts, jobs, outbox, req, oids, portalVars>>
vars == <<textVars, serverVars>>

----------------------------------------------------------------------------
(* Bounds *)

MaxLen == 4        \* longest text enumerated character by character
MaxFragments == 2  \* most fragments joined into one text of a scored pair
MaxAlerts == 2     \* most alerts stored
MaxJobs == 1       \* most jobs created
MaxUsers == 3      \* most accounts registered
MaxApps == 2       \* most applications submitted

----------------------------------------------------------------------------
(* Characters *)

None == <<"None">>

UpperChars == <<"A","B","C","D","E","F","G","H","I","J","K","L","M",
                "N","O","P","Q","R","S","T","U","V","W","X","Y","Z">>
LowerChars == <<"a","b","c","d","e","f","g","h","i","j","k","l","m",
                "n","o","p","q","r","s","t","u","v","w","x","y","z">>
Digits == {"0","1","2","3","4","5","6","7","8","9"}

\* str.isspace(): what \s keeps and str.split() splits on; NBSP is U+00A0.
Whitespace == {" ", "\t", "\n", "NBSP"}

\* [a-z0-9]
LowerAlnum == {LowerChars[i] : i \in 1..26} \cup Digits

\* str.lower() of one character.  U+212A KELVIN SIGN lowers to ASCII k,
\* U+0130 to i followed by U+0307, U+00C9 to U+00E9; these are the shapes
\* lower() has outside ASCII.
LowerChar(c) ==
    IF \E i \in 1..26 : UpperChars[i] = c
    THEN <<LowerChars[CHOOSE i \in 1..26 : UpperChars[i] = c]>>
    ELSE IF c = "KELVIN" THEN <<"k">>
    ELSE IF c = "I_DOT" THEN <<"i", "COMB_DOT">>
    ELSE IF c = "E_ACUTE_UP" THEN <<"e_acute">>
    ELSE <<c>>

RECURSIVE lower(_)
lower(s) == IF s = <<>> THEN <<>> ELSE LowerChar(Head(s)) \o lower(Tail(s))

\* An exception raised inside a function propagates to its caller; a call
\* that raised has this value (a list result) or RaisedScore (an int result).
AttributeError == <<"AttributeError">>
RaisedScore == 0 - 1

\* re.sub(r'[^a-z0-9\s]', '', text)
StripSpecial(s) == SelectSeq(s, LAMBDA c : c \in LowerAlnum \cup Whitespace)

\* preprocess without its "if not text" guard: None.lower() raises.
preprocess_NoGuard(text) ==
    IF text = None THEN AttributeError
    ELSE StripSpecial(lower(text))

preprocess(text) ==
    IF text = None \/ text = <<>> THEN <<>>
    ELSE StripSpecial(lower(text))

\* str.split(): maximal runs of non-whitespace, no empty token.
RECURSIVE SplitFrom(_, _, _)
SplitFrom(s, cur, acc) ==
    IF s = <<>>
    THEN IF cur = <<>> THEN acc ELSE Append(acc, cur)
    ELSE IF Head(s) \in Whitespace
         THEN SplitFrom(Tail(s), <<>>, IF cur = <<>> THEN acc ELSE Append(acc, cur))
         ELSE SplitFrom(Tail(s), Append(cur, Head(s)), acc)

split(s) == SplitFrom(s, <<>>, <<>>)

stopwords ==
    { <<"a","n","d">>, <<"t","h","e">>, <<"t","o">>, <<"o","f">>, <<"a">>,
      <<"i","n">>, <<"f","o","r">>, <<"w","i","t","h">>, <<"o","n">>,
      <<"a","s">>, <<"i","s">>, <<"r","e","q","u","i","r","e","d">> }

\* get_keywords as the comment in it describes it: stopwords not removed.
get_keywords_NoStopwords(text) ==
    LET words == preprocess(text)
    IN  IF words = AttributeError THEN AttributeError ELSE split(words)

\* get_keywords removing stopwords from the raw words, before the special
\* characters are stripped from them.
get_keywords_FilterBeforeStrip(text) ==
    IF text = None \/ text = <<>> THEN <<>>
    ELSE LET raw  == SelectSeq(split(lower(text)), LAMBDA w : w \notin stopwords)
         IN  [i \in 1..Len(raw) |-> StripSpecial(raw[i])]

get_keywords(text) ==
    LET words == preprocess(text)
    IN  IF words = AttributeError THEN AttributeError
        ELSE SelectSeq(split(words), LAMBDA w : w \notin stopwords)

ToSet(seq) == {seq[i] : i \in 1..Len(seq)}

\* min() left out: the scaled value is returned unclamped.
Min_NoClamp(a, b) == a

Min(a, b) == IF a <= b THEN a ELSE b

\* The scaling without the 5x boost: int(jaccard_index * 100).
ScaledJaccard_Percent(i, u) == (i * 100) \div u

\* int(jaccard_index * 500) with jaccard_index = i / u in binary64.
\* When 500*i/u is an integer n < 100 the double product is exactly n
\* (fl(fl(n/500)*500) = n for n in 0..99), and otherwise 500*i/u is at
\* least 1/u away from an integer, far more than the rounding error; so
\* the truncation equals the integer quotient.
ScaledJaccard(i, u) == (i * 500) \div u

\* The score with the job's keyword count as denominator instead of the
\* union's.
calculate_match_score_JobDenominator(job_description, candidate_text) ==
    LET job_keywords    == ToSet(get_keywords(job_description))
        resume_keywords == ToSet(get_keywords(candidate_text))
        intersection    == job_keywords \cap resume_keywords
    IN  IF job_keywords = {} THEN 0
        ELSE Min(ScaledJaccard(Cardinality(intersection), Cardinality(job_keywords)), 100)

calculate_match_score(job_description, candidate_text) ==
    IF \/ get_keywords(job_description) = AttributeError
       \/ get_keywords(candidate_text) = AttributeError
    THEN RaisedScore
    ELSE
    LET job_keywords    == ToSet(get_keywords(job_description))
        resume_keywords == ToSet(get_keywords(candidate_text))
        intersection    == job_keywords \cap resume_keywords
        union           == job_keywords \cup resume_keywords
    IN  IF job_keywords = {} THEN 0
        ELSE IF union = {} THEN 0
        ELSE Min(ScaledJaccard(Cardinality(intersection), Cardinality(union)), 100)

\* " ".join(words)
RECURSIVE Join(_)
Join(words) ==
    IF words = <<>> THEN <<>>
    ELSE IF Len(words) = 1 THEN words[1]
    ELSE words[1] \o <<" ">> \o Join(Tail(words))

----------------------------------------------------------------------------
(* Inputs *)

\* Characters of the texts enumerated in full: a stopword letter pair
\* (a, s), an upper-case letter, a digit, punctuation, ASCII and Unicode
\* whitespace, and a non-ASCII letter that lowers to ASCII.
Alphabet == {"a", "s", "A", "1", "!", " ", "NBSP", "KELVIN", "I_DOT"}

RECURSIVE TextsUpTo(_)
TextsUpTo(n) ==
    IF n = 0 THEN {<<>>}
    ELSE LET shorter == TextsUpTo(n - 1)
         IN  shorter \cup {Append(t, c) : t \in shorter, c \in Alphabet}

Texts == TextsUpTo(MaxLen) \cup {None}

\* Fragments of job and resume text for the scored pairs:
\*   "Py"   "py, sql & go"   "js<TAB>ui<NBSP>UX K8s"   "The !"
\* (K the Kelvin sign); the last has no keyword.
Fragments ==
    << <<"P","y">>,
       <<"p","y",","," ","s","q","l"," ","&"," ","g","o">>,
       <<"j","s","\t","u","i","NBSP","U","X"," ","KELVIN","8","s">>,
       <<"T","h","e"," ","!">> >>

RECURSIVE FragmentSeqs(_)
FragmentSeqs(n) ==
    IF n = 0 THEN {<<>>}
    ELSE LET shorter == FragmentSeqs(n - 1)
         IN  shorter \cup {Append(fs, Fragments[i]) : fs \in shorter, i \in 1..Len(Fragments)}

ScoreTexts == {Join(fs) : fs \in FragmentSeqs(MaxFragments)} \cup {None}

----------------------------------------------------------------------------
(* The server: stored alerts and jobs, and the create_job request *)

Idle == [pc |-> "idle", job_id |-> 0, job_doc |-> <<>>, cursor |-> <<>>,
         i |-> 0, status |-> 0]

InitServer ==
    /\ alerts = <<>>
    /\ jobs = <<>>
    /\ outbox = <<>>
    /\ req = Idle
    /\ users = <<>>
    /\ applications = <<>>
    /\ oids = [users |-> 0, jobs |-> 0, applications |-> 0]
    /\ tokens = {}
    /\ inflight = <<>>

\* E-mail addresses are opaque: an address is a one-symbol text.
Emails == {<<"ann@x.io">>, <<"bob@x.io">>}

\* Keywords of the alerts created: "Py", "acme" and the empty keyword.
AlertKeywords == { <<"P","y">>, <<"a","c","m","e">>, <<>> }

\* The principals get_current_user resolves a token to.
Callers ==
    { [_id |-> "r1", role |-> "recruiter", email |-> <<"bob@x.io">>],
      [_id |-> "c1", role |-> "candidate", email |-> <<"ann@x.io">>],
      [_id |-> "admin-static-id", role |-> "admin", email |-> None] }

\* Request bodies of POST /jobs; a field the client leaves out is absent.
\*   "PYTHON dev" / "at Acme"
\*   "Python Dev" / "ml", company "Acme", location "Pune", status "approved"
JobBodies ==
    { [title |-> <<"P","Y","T","H","O","N"," ","d","e","v">>,
       description |-> <<"a","t"," ","A","c","m","e">>],
      [title |-> <<"P","y","t","h","o","n"," ","D","e","v">>,
       description |-> <<"m","l">>,
       company |-> <<"A","c","m","e">>,
       location |-> <<"P","u","n","e">>,
       status |-> "approved"] }

\* JobBase: the fields and their defaults.
JobDefaults ==
    [company |-> None, location |-> None, type |-> "full-time",
     views |-> 0, status |-> "pending"]

\* JobCreate(body).model_dump(): every field of the schema is a key, an
\* absent optional field with its default.
model_dump(body) ==
    [f \in DOMAIN body \cup DOMAIN JobDefaults |->
        IF f \in DOMAIN body THEN body[f] ELSE JobDefaults[f]]

\* dict.get(key, default)
DictGet(d, key, default) == IF key \in DOMAIN d THEN d[key] ELSE default

\* x in s, for strings
IsSubstring(x, s) ==
    \E k \in 0..(Len(s) - Len(x)) : SubSeq(s, k + 1, k + Len(x)) = x

\* The alert test extended to the company, as for a search over all fields.
AlertMatches_WithCompany(alert, job_doc) ==
    LET keyword == lower(alert.keyword)
    IN  \/ IsSubstring(keyword, lower(job_doc.title))
        \/ IsSubstring(keyword, lower(job_doc.description))
        \/ job_doc.company # None /\ IsSubstring(keyword, lower(job_doc.company))

\* The test of check_alerts.
AlertMatches(alert, job_doc) ==
    LET keyword == lower(alert.keyword)
    IN  \/ IsSubstring(keyword, lower(job_doc.title))
        \/ IsSubstring(keyword, lower(job_doc.description))

\* What a call of send_job_alert can meet: the mail is sent; send_message
\* raises; building the MessageSchema raises.
SendOutcomes == {"sent", "send_failed", "message_invalid"}

\* send_job_alert: a failure of send_message is caught and printed, one of
\* the MessageSchema constructor leaves the function.
send_job_alert(outcome) ==
    IF outcome = "message_invalid" THEN "raised" ELSE "returned"

\* check_alerts without its try/except around the call.
check_alerts_NoTry(result) == result

\* The try/except of check_alerts around the call: whatever the call
\* raises is caught and printed.
check_alerts_try(result) == "returned"

\* POST /alerts: the address of the body, else the caller's, else 400.
CreateAlert ==
    \E current \in Callers, email \in Emails \cup {None}, keyword \in AlertKeywords :
        /\ Len(alerts) < MaxAlerts
        /\ LET address == IF email # None THEN email ELSE current.email
           IN  IF address = None
               THEN UNCHANGED alerts
               ELSE alerts' = Append(alerts, [email |-> address, keyword |-> keyword])
        /\ UNCHANGED <<jobs, outbox, req, oids, portalVars, textVars>>

\* The job_doc of create_job taking the status from the request body.
NewJobDoc_ClientStatus(body, current, oid) ==
    LET dumped == model_dump(body)
    IN  [f \in DOMAIN dumped \cup {"recruiter", "_id"} |->
            IF f = "recruiter" THEN current._id
            ELSE IF f = "_id" THEN oid
            ELSE dumped[f]]

\* The job_doc of create_job: the dumped body with the status forced to
\* pending and the recruiter set, and the _id insert_one gives it.
NewJobDoc(body, current, oid) ==
    LET dumped == model_dump(body)
    IN  [f \in DOMAIN dumped \cup {"recruiter", "_id"} |->
            IF f = "status" THEN "pending"
            ELSE IF f = "recruiter" THEN current._id
            ELSE IF f = "_id" THEN oid
            ELSE dumped[f]]

\* create_job called by someone who is no recruiter: 403, nothing stored.
create_job_forbidden(current) ==
    /\ req.pc \in {"idle", "done"}
    /\ current.role # "recruiter"
    /\ req' = [Idle EXCEPT !.pc = "done", !.status = 403]
    /\ outbox' = <<>>
    /\ UNCHANGED <<alerts, jobs, oids, portalVars, textVars>>

\* create_job up to the insert: the job is stored as pending.
\* (created_at, the clock's reading, is left out.)
create_job_insert(current, body) ==
    /\ req.pc \in {"idle", "done"}
    /\ current.role = "recruiter"
    /\ oids.jobs < MaxJobs
    /\ LET job_doc == NewJobDoc(body, current, oids.jobs + 1)
       IN  /\ jobs' = Append(jobs, job_doc)
           /\ req' = [Idle EXCEPT !.pc = "find", !.job_id = job_doc._id,
                                  !.job_doc = job_doc]
    /\ oids' = [oids EXCEPT !.jobs = @ + 1]
    /\ outbox' = <<>>
    /\ UNCHANGED <<alerts, portalVars, textVars>>

\* POST /jobs by a caller who is no recruiter.
CreateJobForbidden == \E current \in Callers : create_job_forbidden(current)

\* POST /jobs by a recruiter, up to the insert.
CreateJobInsert ==
    \E current \in Callers, body \in JobBodies : create_job_insert(current, body)

\* check_alerts: db.alerts.find() returns the alerts stored.
CheckAlertsFind ==
    /\ req.pc = "find"
    /\ req' = [req EXCEPT !.pc = "scan", !.cursor = alerts, !.i = 1]
    /\ UNCHANGED <<alerts, jobs, outbox, oids, portalVars, textVars>>

\* check_alerts: the next alert does not match.
CheckAlertsSkip ==
    /\ req.pc = "scan"
    /\ req.i <= Len(req.cursor)
    /\ ~AlertMatches(req.cursor[req.i], req.job_doc)
    /\ req' = [req EXCEPT !.i = @ + 1]
    /\ UNCHANGED <<alerts, jobs, outbox, oids, portalVars, textVars>>

\* check_alerts sending at most one notification per address for a job.
CheckAlertsSend_DedupEmail ==
    \E outcome \in SendOutcomes :
        /\ req.pc = "scan"
        /\ req.i <= Len(req.cursor)
        /\ AlertMatches(req.cursor[req.i], req.job_doc)
        /\ IF \E k \in 1..Len(outbox) : outbox[k].email = req.cursor[req.i].email
           THEN UNCHANGED outbox
           ELSE outbox' = Append(outbox,
                  [email    |-> req.cursor[req.i].email,
                   keyword  |-> lower(req.cursor[req.i].keyword),
                   title    |-> req.job_doc.title,
                   company  |-> DictGet(req.job_doc, "company", <<"Confidential">>),
                   location |-> DictGet(req.job_doc, "location", <<"Remote">>),
                   outcome  |-> outcome])
        /\ req' = [req EXCEPT !.i = @ + 1]
        /\ UNCHANGED <<alerts, jobs, oids, portalVars, textVars>>

\* check_alerts: the next alert matches and send_job_alert is called.
CheckAlertsSend ==
    \E outcome \in SendOutcomes :
        /\ req.pc = "scan"
        /\ req.i <= Len(req.cursor)
        /\ AlertMatches(req.cursor[req.i], req.job_doc)
        /\ outbox' = Append(outbox,
              [email    |-> req.cursor[req.i].email,
               keyword  |-> lower(req.cursor[req.i].keyword),
               title    |-> req.job_doc.title,
               company  |-> DictGet(req.job_doc, "company", <<"Confidential">>),
               location |-> DictGet(req.job_doc, "location", <<"Remote">>),
               outcome  |-> outcome])
        /\ req' = IF check_alerts_try(send_job_alert(outcome)) = "raised"
                  THEN [req EXCEPT !.pc = "done", !.status = 500]
                  ELSE [req EXCEPT !.i = @ + 1]
        /\ UNCHANGED <<alerts, jobs, oids, portalVars, textVars>>

\* create_job handing check_alerts to a background task: the response is
\* sent once the job is inserted and the scan runs after it.
CreateJobRespond_Background ==
    /\ req.pc = "find"
    /\ req.status = 0
    /\ req' = [req EXCEPT !.status = 200]
    /\ UNCHANGED <<alerts, jobs, outbox, oids, portalVars, textVars>>

\* create_job after check_alerts has returned: the response.
CreateJobRespond ==
    /\ req.pc = "scan"
    /\ req.i > Len(req.cursor)
    /\ req' = [req EXCEPT !.pc = "done", !.status = 200]
    /\ UNCHANGED <<alerts, jobs, outbox, oids, portalVars, textVars>>

Init ==
    /\ jobText = <<>>
    /\ candText = <<>>
    /\ kw = <<>>
    /\ kw2 = <<>>
    /\ score = 0
    /\ score2 = 0
    /\ calls = {}
    /\ InitServer

Next ==
    \/ CreateAlert
    \/ CreateJobForbidden
    \/ CreateJobInsert
    \/ CheckAlertsFind
    \/ CheckAlertsSkip
    \/ CheckAlertsSend
    \/ CreateJobRespond

Spec == Init /\ [][Next]_vars

(***************************************************************************)
(* Accounts, moderation and applications (backend/routes.py).  A handler   *)
(* is an operator from the caller and the request to the status code and   *)
(* the collections it leaves; the action applies it.                       *)
(***************************************************************************)

\* The _id values insert_one gives the documents of db.users, in order.
UserOids == <<"u1", "u2", "u3", "u4", "u5", "u6">>

StaticAdminId == "admin-static-id"

\* What stands for None where a document or an upload is expected.
NoDoc == [none |-> TRUE]

\* find_one: the first document with the value in the field, or None.
FindOne(coll, field, value) ==
    LET found == SelectSeq(coll, LAMBDA d : d[field] = value)
    IN  IF found = <<>> THEN NoDoc ELSE found[1]

\* Registration forms of POST /auth/register.  The upload is a file name
\* and the text its pages hold.
\*   Ann, candidate, resume "python sql";  Cy, candidate, Ann's address;
\*   Bob and Rex, recruiters;  Eve, role admin;  Gus, role guest.
RegisterForms ==
    { [name |-> <<"A","n","n">>, username |-> <<"a","n","n">>,
       email |-> <<"ann@x.io">>, password |-> "pw", role |-> "candidate",
       resume |-> [filename |-> "ann.pdf",
                   text |-> <<"p","y","t","h","o","n"," ","s","q","l">>]],
      [name |-> <<"C","y">>, username |-> <<"c","y">>,
       email |-> <<"ann@x.io">>, password |-> "pw", role |-> "candidate",
       resume |-> NoDoc],
      [name |-> <<"B","o","b">>, username |-> <<"b","o","b">>,
       email |-> <<"bob@x.io">>, password |-> "pw", role |-> "recruiter",
       resume |-> [filename |-> "bob.pdf", text |-> <<"h","r">>]],
      [name |-> <<"R","e","x">>, username |-> <<"r","e","x">>,
       email |-> <<"rex@x.io">>, password |-> "pw", role |-> "recruiter",
       resume |-> NoDoc],
      [name |-> <<"E","v","e">>, username |-> <<"e","v","e">>,
       email |-> <<"eve@x.io">>, password |-> "pw", role |-> "admin",
       resume |-> NoDoc],
      [name |-> <<"G","u","s">>, username |-> <<"g","u","s">>,
       email |-> <<"gus@x.io">>, password |-> "pw", role |-> "guest",
       resume |-> NoDoc] }

\* The path register saves an upload under (the uuid4 prefix is left out).
ResumePath(resume) == <<"uploads/resumes/" \o resume.filename>>

\* register: the role is one of candidate, recruiter and admin, the
\* username and the address are new; the user is stored and a token for
\* it is issued.  (password holds what hash_password and verify_password
\* agree on; created_at is left out.)
register(form) ==
    IF form.role \notin {"candidate", "recruiter", "admin"}
    THEN [code |-> 400, users |-> users, sub |-> None]
    ELSE IF FindOne(users, "username", form.username) # NoDoc
    THEN [code |-> 400, users |-> users, sub |-> None]
    ELSE IF FindOne(users, "email", form.email) # NoDoc
    THEN [code |-> 400, users |-> users, sub |-> None]
    ELSE LET user_doc ==
                [_id      |-> UserOids[oids.users + 1],
                 name     |-> form.name,
                 username |-> form.username,
                 email    |-> form.email,
                 password |-> form.password,
                 role     |-> form.role,
                 resume   |-> IF form.resume # NoDoc /\ form.role = "candidate"
                              THEN ResumePath(form.resume) ELSE None]
         IN  [code |-> 200, users |-> Append(users, user_doc), sub |-> user_doc._id]

\* The credentials of the hard-coded admin.
AdminUsername == <<"a","d","m","i","n">>
AdminPassword == "logadmin"

\* login: the hard-coded admin, or a stored user with its password.
login(username, password) ==
    IF username = AdminUsername /\ password = AdminPassword
    THEN [code |-> 200, sub |-> StaticAdminId]
    ELSE LET user == FindOne(users, "username", username)
         IN  IF user = NoDoc \/ password # user.password
             THEN [code |-> 400, sub |-> None]
             ELSE [code |-> 200, sub |-> user._id]

\* get_current_user: the static admin record for the static subject, else
\* the stored user of the token's subject, else 401.
StaticAdmin ==
    [_id |-> StaticAdminId, name |-> <<"P","l","a","t","f","o","r","m"," ","A","d","m","i","n">>,
     username |-> AdminUsername, role |-> "admin", email |-> None]

get_current_user(sub) ==
    IF sub = StaticAdminId THEN [code |-> 200, user |-> StaticAdmin]
    ELSE LET user == FindOne(users, "_id", sub)
         IN  IF user = NoDoc THEN [code |-> 401, user |-> NoDoc]
             ELSE [code |-> 200, user |-> user]

\* The callers a request can come from: the holders of the tokens issued
\* whose subject get_current_user resolves.
Authenticated == { get_current_user(sub).user :
                     sub \in {t \in tokens : get_current_user(t).code = 200} }

\* POST /auth/register
Register ==
    \E form \in RegisterForms :
        /\ oids.users < MaxUsers
        /\ LET r == register(form)
           IN  /\ users' = r.users
               /\ oids' = IF r.code = 200 THEN [oids EXCEPT !.users = @ + 1] ELSE oids
               /\ tokens' = IF r.code = 200 THEN tokens \cup {r.sub} ELSE tokens
        /\ UNCHANGED <<alerts, jobs, outbox, req, applications, inflight, textVars>>

\* POST /auth/login
Login ==
    \E username \in {form.username : form \in RegisterForms} \cup {AdminUsername},
       password \in {form.password : form \in RegisterForms} \cup {AdminPassword} :
        /\ LET r == login(username, password)
           IN  tokens' = IF r.code = 200 THEN tokens \cup {r.sub} ELSE tokens
        /\ UNCHANGED <<alerts, jobs, outbox, req, oids, users, applications, inflight, textVars>>

\* The calls of send_job_alert check_alerts makes for a job, one for each
\* matching alert stored, each with one of its outcomes.
check_alerts(job_doc) ==
    LET matching == SelectSeq(alerts, LAMBDA alert : AlertMatches(alert, job_doc))
    IN  { [k \in 1..Len(matching) |->
              [email    |-> matching[k].email,
               keyword  |-> lower(matching[k].keyword),
               title    |-> job_doc.title,
               company  |-> DictGet(job_doc, "company", <<"Confidential">>),
               location |-> DictGet(job_doc, "location", <<"Remote">>),
               outcome  |-> outcomes[k]]] :
          outcomes \in [1..Len(matching) -> SendOutcomes] }

\* The request body of the jobs posted to the portal: the one that names
\* a company and asks for the status approved.
PortalJobBodies == {body \in JobBodies : "status" \in DOMAIN body}

\* create_job run to completion: a recruiter's job is stored as pending.
create_job(current, body) ==
    IF current.role # "recruiter" THEN [code |-> 403, jobs |-> jobs]
    ELSE [code |-> 200, jobs |-> Append(jobs, NewJobDoc(body, current, oids.jobs + 1))]

\* POST /jobs, run to completion: the insert, the scan of check_alerts and
\* the response in one step.  (req follows a request from one awaited call
\* to the next; a request that runs in one step never shows in it.)
CreateJob ==
    \E current \in Authenticated, body \in PortalJobBodies :
        /\ oids.jobs < MaxJobs
        /\ LET r == create_job(current, body)
           IN  /\ jobs' = r.jobs
               /\ oids' = IF r.code = 200 THEN [oids EXCEPT !.jobs = @ + 1] ELSE oids
               /\ outbox' \in IF r.code = 200
                              THEN check_alerts(r.jobs[Len(r.jobs)]) ELSE {<<>>}
        /\ UNCHANGED <<alerts, req, portalVars, textVars>>

\* The job ids and the statuses a moderation request names.
JobIds == 1..MaxJobs
JobStatusInputs == {"approved", "rejected", "pending", "closed"}

\* update_one({"_id": id}, {"$set": {field: value}})
UpdateOne(coll, id, field, value) ==
    [k \in 1..Len(coll) |->
        IF coll[k]._id = id THEN [coll[k] EXCEPT ![field] = value] ELSE coll[k]]

\* admin_update_job_status: the caller is an admin and the status is one
\* of the three; the job of the id, if there is one, gets the status.
admin_update_job_status(current, job_id, new_status) ==
    IF current.role # "admin" THEN [code |-> 403, jobs |-> jobs]
    ELSE IF new_status \notin {"approved", "rejected", "pending"}
    THEN [code |-> 400, jobs |-> jobs]
    ELSE [code |-> 200, jobs |-> UpdateOne(jobs, job_id, "status", new_status)]

\* PATCH /admin/jobs/{job_id}/status
AdminUpdateJobStatus ==
    \E current \in Authenticated, job_id \in JobIds, new_status \in JobStatusInputs :
        /\ jobs' = admin_update_job_status(current, job_id, new_status).jobs
        /\ UNCHANGED <<alerts, outbox, req, oids, portalVars, textVars>>

\* The filters of GET /jobs: none, or a keyword, a location and a type
\* (a type left out is the empty string, which is as false as None).
JobFilters ==
    { [keyword |-> None, location |-> None, type |-> ""],
      [keyword |-> <<"p","y">>, location |-> <<"p","u","n","e">>, type |-> "full-time"],
      [keyword |-> <<"a","c","m","e">>, location |-> None, type |-> "all"] }

\* {"$regex": pattern, "$options": "i"} for a pattern of letters: the
\* field is a string holding the pattern, whatever the case.
RegexI(value, pattern) == value # None /\ IsSubstring(lower(pattern), lower(value))

\* get_jobs: the approved jobs that pass the filters, latest first.
get_jobs(filter) ==
    LET Keep(j) ==
            /\ j.status = "approved"
            /\ filter.keyword # None =>
                  \/ RegexI(j.title, filter.keyword)
                  \/ RegexI(j.company, filter.keyword)
                  \/ RegexI(j.description, filter.keyword)
            /\ filter.location # None => RegexI(j.location, filter.location)
            /\ (filter.type # "" /\ filter.type # "all") => j.type = filter.type
        found == SelectSeq(jobs, Keep)
    IN  [k \in 1..Len(found) |-> found[Len(found) + 1 - k]]

\* GET /jobs reads db.jobs and stores nothing.
GetJobs ==
    \E filter \in JobFilters :
        /\ Len(get_jobs(filter)) <= Len(jobs)
        /\ UNCHANGED vars

\* apply_to_job, from the caller's role to the insert, in one step.
apply_to_job(current, job_id) ==
    IF current.role # "candidate" THEN [code |-> 403, applications |-> applications]
    ELSE IF FindOne(jobs, "_id", job_id) = NoDoc
    THEN [code |-> 404, applications |-> applications]
    ELSE IF \E k \in 1..Len(applications) :
                applications[k].job = job_id /\ applications[k].candidate = current._id
    THEN [code |-> 400, applications |-> applications]
    ELSE LET app_doc ==
                [_id       |-> oids.applications + 1,
                 job       |-> job_id,
                 candidate |-> current._id,
                 resume    |-> current.resume,
                 status    |-> "pending",
                 message   |-> None]
         IN  [code |-> 200, applications |-> Append(applications, app_doc)]

\* POST /jobs/{job_id}/apply, run to completion.
ApplyToJob ==
    \E current \in Authenticated, job_id \in JobIds :
        /\ oids.applications < MaxApps
        /\ LET r == apply_to_job(current, job_id)
           IN  /\ applications' = r.applications
               /\ oids' = IF r.code = 200 THEN [oids EXCEPT !.applications = @ + 1] ELSE oids
        /\ UNCHANGED <<alerts, jobs, outbox, req, users, tokens, inflight, textVars>>

\* The user ids a delete request names: ids ObjectId accepts and one it
\* does not.
UserIdInputs == {UserOids[k] : k \in 1..MaxUsers} \cup {StaticAdminId}

\* admin_delete_user without the cascade.
admin_delete_user_NoCascade(current, user_id) ==
    IF current.role # "admin"
    THEN [code |-> 403, users |-> users, jobs |-> jobs, applications |-> applications]
    ELSE IF user_id \notin {UserOids[k] : k \in 1..Len(UserOids)}
    THEN [code |-> 400, users |-> users, jobs |-> jobs, applications |-> applications]
    ELSE IF FindOne(users, "_id", user_id) = NoDoc
    THEN [code |-> 404, users |-> users, jobs |-> jobs, applications |-> applications]
    ELSE [code |-> 200, users |-> SelectSeq(users, LAMBDA u : u._id # user_id),
          jobs |-> jobs, applications |-> applications]

\* admin_delete_user: the caller is an admin and the user exists; a
\* candidate's applications go, a recruiter's jobs and the applications
\* to them go, then the user goes.
admin_delete_user(current, user_id) ==
    IF current.role # "admin"
    THEN [code |-> 403, users |-> users, jobs |-> jobs, applications |-> applications]
    ELSE IF user_id \notin {UserOids[k] : k \in 1..Len(UserOids)}
    THEN [code |-> 400, users |-> users, jobs |-> jobs, applications |-> applications]
    ELSE IF FindOne(users, "_id", user_id) = NoDoc
    THEN [code |-> 404, users |-> users, jobs |-> jobs, applications |-> applications]
    ELSE LET user    == FindOne(users, "_id", user_id)
             job_ids == {jobs[k]._id : k \in {n \in 1..Len(jobs) : jobs[n].recruiter = user_id}}
         IN  [code |-> 200,
              users |-> SelectSeq(users, LAMBDA u : u._id # user_id),
              jobs  |-> IF user.role = "recruiter" /\ job_ids # {}
                        THEN SelectSeq(jobs, LAMBDA j : j.recruiter # user_id)
                        ELSE jobs,
              applications |->
                  IF user.role = "candidate"
                  THEN SelectSeq(applications, LAMBDA a : a.candidate # user_id)
                  ELSE IF user.role = "recruiter" /\ job_ids # {}
                  THEN SelectSeq(applications, LAMBDA a : a.job \notin job_ids)
                  ELSE applications]

\* DELETE /admin/users/{user_id}, run to completion.
AdminDeleteUser ==
    \E current \in Authenticated, user_id \in UserIdInputs :
        /\ LET r == admin_delete_user(current, user_id)
           IN  /\ users' = r.users
               /\ jobs' = r.jobs
               /\ applications' = r.applications
        /\ UNCHANGED <<alerts, outbox, req, oids, tokens, inflight, textVars>>

\* The application ids and the payloads an update request names.
AppIds == 1..MaxApps
StatusUpdates ==
    { [status |-> "selected", message |-> <<"o","k">>],
      [status |-> "rejected", message |-> <<"o","k">>],
      [status |-> "pending", message |-> None],
      [status |-> "hired", message |-> <<"o","k">>] }

\* update_application_status without the test of the job's recruiter.
update_application_status_AnyRecruiter(current, app_id, new_status, message) ==
    IF current.role # "recruiter" THEN [code |-> 403, applications |-> applications]
    ELSE IF FindOne(applications, "_id", app_id) = NoDoc
    THEN [code |-> 404, applications |-> applications]
    ELSE IF new_status \notin {"pending", "selected", "rejected"}
    THEN [code |-> 400, applications |-> applications]
    ELSE LET set_status == UpdateOne(applications, app_id, "status", new_status)
         IN  [code |-> 200,
              applications |-> IF message # None
                               THEN UpdateOne(set_status, app_id, "message", message)
                               ELSE set_status]

\* update_application_status: the caller is a recruiter, the application
\* exists, its job exists and is the caller's, and the status is one of
\* the three; the status is set, and the message if one is given.
update_application_status(current, app_id, new_status, message) ==
    IF current.role # "recruiter" THEN [code |-> 403, applications |-> applications]
    ELSE IF FindOne(applications, "_id", app_id) = NoDoc
    THEN [code |-> 404, applications |-> applications]
    ELSE IF LET job == FindOne(jobs, "_id", FindOne(applications, "_id", app_id).job)
            IN  job = NoDoc \/ job.recruiter # current._id
    THEN [code |-> 403, applications |-> applications]
    ELSE IF new_status \notin {"pending", "selected", "rejected"}
    THEN [code |-> 400, applications |-> applications]
    ELSE LET set_status == UpdateOne(applications, app_id, "status", new_status)
         IN  [code |-> 200,
              applications |-> IF message # None
                               THEN UpdateOne(set_status, app_id, "message", message)
                               ELSE set_status]

\* PATCH /applications/{app_id}/status
UpdateApplicationStatus ==
    \E current \in Authenticated, app_id \in AppIds, payload \in StatusUpdates :
        /\ applications' =
              update_application_status(current, app_id, payload.status,
                                        payload.message).applications
        /\ UNCHANGED <<alerts, jobs, outbox, req, oids, users, tokens, inflight, textVars>>

\* str() of a field inside an f-string.
Str(value) == IF value = None THEN <<"N","o","n","e">> ELSE value

RoleText ==
    [candidate |-> <<"c","a","n","d","i","d","a","t","e">>,
     recruiter |-> <<"r","e","c","r","u","i","t","e","r">>,
     admin     |-> <<"a","d","m","i","n">>]

\* The text of the file register saved under the path.
UploadText(path) ==
    LET form == CHOOSE f \in RegisterForms :
                    f.resume # NoDoc /\ ResumePath(f.resume) = path
    IN  form.resume.text

\* The match score of one application: the job's title, description and
\* company against the text of the candidate's resume, or against the
\* candidate's name, role and username when there is no resume or no text
\* could be extracted from it (pdf_ok is whether extract_text_from_pdf
\* could read the file).
ApplicationScore(job, cand, pdf_ok) ==
    LET job_desc  == job.title \o <<" ">> \o job.description \o <<" ">>
                     \o Str(DictGet(job, "company", <<>>))
        extracted == IF cand.resume # None /\ pdf_ok
                     THEN UploadText(cand.resume) ELSE <<>>
        cand_text == IF extracted # <<>> THEN extracted
                     ELSE cand.name \o <<" ">> \o RoleText[cand.role]
                          \o <<" ">> \o cand.username
    IN  calculate_match_score(job_desc, cand_text)

\* The entries recruiter_applications builds for the applications found,
\* latest first; an application whose candidate is gone is skipped.
ListingEntries(found, pdf_ok) ==
    LET latest  == [k \in 1..Len(found) |-> found[Len(found) + 1 - k]]
        present == SelectSeq(latest,
                       LAMBDA app : FindOne(users, "_id", app.candidate) # NoDoc)
    IN  [k \in 1..Len(present) |->
            LET app  == present[k]
                job  == FindOne(jobs, "_id", app.job)
                cand == FindOne(users, "_id", app.candidate)
            IN  [id             |-> app._id,
                 job_title      |-> IF job # NoDoc THEN job.title
                                    ELSE <<"U","n","k","n","o","w","n">>,
                 candidate_name |-> cand.name,
                 resume         |-> cand.resume,
                 status         |-> app.status,
                 message        |-> app.message,
                 match_score    |-> IF job # NoDoc
                                    THEN ApplicationScore(job, cand, pdf_ok)
                                    ELSE 0]]

\* recruiter_applications keeping each score it computes in the
\* application.
recruiter_applications_Cached(current, pdf_ok) ==
    IF current.role # "recruiter"
    THEN [code |-> 403, listing |-> <<>>,
          db |-> [users |-> users, jobs |-> jobs,
                  applications |-> applications, alerts |-> alerts]]
    ELSE LET job_ids == {jobs[k]._id :
                            k \in {n \in 1..Len(jobs) : jobs[n].recruiter = current._id}}
             found   == SelectSeq(applications, LAMBDA app : app.job \in job_ids)
             listing == ListingEntries(found, pdf_ok)
             Score(app) == IF \E k \in 1..Len(listing) : listing[k].id = app._id
                           THEN (CHOOSE e \in {listing[k] : k \in 1..Len(listing)} :
                                     e.id = app._id).match_score
                           ELSE 0
         IN  [code |-> 200, listing |-> listing,
              db |-> [users |-> users, jobs |-> jobs, alerts |-> alerts,
                      applications |->
                          [k \in 1..Len(applications) |->
                              [f \in DOMAIN applications[k] \cup {"match_score"} |->
                                  IF f = "match_score" THEN Score(applications[k])
                                  ELSE applications[k][f]]]]]

\* recruiter_applications: for a recruiter, the applications to the
\* recruiter's jobs, each with the match score computed for this response;
\* the database is read only.
recruiter_applications(current, pdf_ok) ==
    IF current.role # "recruiter"
    THEN [code |-> 403, listing |-> <<>>,
          db |-> [users |-> users, jobs |-> jobs,
                  applications |-> applications, alerts |-> alerts]]
    ELSE LET job_ids == {jobs[k]._id :
                            k \in {n \in 1..Len(jobs) : jobs[n].recruiter = current._id}}
             found   == SelectSeq(applications, LAMBDA app : app.job \in job_ids)
         IN  [code |-> 200, listing |-> ListingEntries(found, pdf_ok),
              db |-> [users |-> users, jobs |-> jobs,
                      applications |-> applications, alerts |-> alerts]]

\* GET /recruiter/applications
RecruiterApplications ==
    \E current \in Authenticated, pdf_ok \in BOOLEAN :
        /\ LET r == recruiter_applications(current, pdf_ok)
           IN  /\ users' = r.db.users
               /\ jobs' = r.db.jobs
               /\ applications' = r.db.applications
               /\ alerts' = r.db.alerts
        /\ UNCHANGED <<outbox, req, oids, tokens, inflight, textVars>>

\* apply_to_job followed through its awaited calls.  A request is the
\* caller get_current_user resolved, the job id, the call it is about to
\* make and, once answered, its status code.

\* The role check and db.jobs.find_one.
ApplyFindJob ==
    \E current \in Authenticated, job_id \in JobIds :
        /\ Len(inflight) < MaxApps
        /\ inflight' = Append(inflight,
              IF current.role # "candidate"
              THEN [current |-> current, job_id |-> job_id, pc |-> "done", code |-> 403]
              ELSE IF FindOne(jobs, "_id", job_id) = NoDoc
              THEN [current |-> current, job_id |-> job_id, pc |-> "done", code |-> 404]
              ELSE [current |-> current, job_id |-> job_id, pc |-> "find_existing", code |-> 0])
        /\ UNCHANGED <<alerts, jobs, outbox, req, oids, users, applications, tokens, textVars>>

\* db.applications.find_one for the job and the candidate: 400 "Already
\* applied" if there is one.
ApplyFindExisting ==
    \E n \in 1..Len(inflight) :
        /\ inflight[n].pc = "find_existing"
        /\ inflight' = [inflight EXCEPT ![n] =
              IF \E k \in 1..Len(applications) :
                     /\ applications[k].job = inflight[n].job_id
                     /\ applications[k].candidate = inflight[n].current._id
              THEN [@ EXCEPT !.pc = "done", !.code = 400]
              ELSE [@ EXCEPT !.pc = "insert_one"]]
        /\ UNCHANGED <<alerts, jobs, outbox, req, oids, users, applications, tokens, textVars>>

\* db.applications.insert_one and the response.
ApplyInsertOne ==
    \E n \in 1..Len(inflight) :
        /\ inflight[n].pc = "insert_one"
        /\ applications' = Append(applications,
              [_id       |-> oids.applications + 1,
               job       |-> inflight[n].job_id,
               candidate |-> inflight[n].current._id,
               resume    |-> inflight[n].current.resume,
               status    |-> "pending",
               message   |-> None])
        /\ oids' = [oids EXCEPT !.applications = @ + 1]
        /\ inflight' = [inflight EXCEPT ![n] = [@ EXCEPT !.pc = "done", !.code = 200]]
        /\ UNCHANGED <<alerts, jobs, outbox, req, users, tokens, textVars>>

\* Accounts, jobs and concurrent requests to apply.
NextConcurrent ==
    \/ Register
    \/ CreateJob
    \/ ApplyFindJob
    \/ ApplyFindExisting
    \/ ApplyInsertOne

SpecConcurrent == Init /\ [][NextConcurrent]_vars

\* Accounts and the moderation of jobs.
NextModeration ==
    \/ Register
    \/ Login
    \/ CreateJob
    \/ AdminUpdateJobStatus
    \/ GetJobs
    \/ AdminDeleteUser

SpecModeration == Init /\ [][NextModeration]_vars

\* Accounts, jobs and the applications to them.  No handler of an
\* application reads a job's status, which stays as create_job stores it.
NextApplications ==
    \/ Register
    \/ Login
    \/ CreateJob
    \/ ApplyToJob
    \/ AdminDeleteUser
    \/ UpdateApplicationStatus

SpecApplications == Init /\ [][NextApplications]_vars

\* The recruiter's list of applications, with the handlers that store what
\* it reads.
NextListing ==
    \/ Register
    \/ CreateJob
    \/ ApplyToJob
    \/ UpdateApplicationStatus
    \/ RecruiterApplications

SpecListing == Init /\ [][NextListing]_vars

----------------------------------------------------------------------------
(* Keyword extraction applied to one text *)

InitText ==
    /\ jobText \in Texts
    /\ candText = jobText
    /\ kw = <<>>
    /\ kw2 = <<>>
    /\ score = 0
    /\ score2 = 0
    /\ calls = {}
    /\ InitServer

GetKeywords ==
    /\ "keywords" \notin calls
    /\ kw' = get_keywords(jobText)
    /\ calls' = calls \cup {"keywords"}
    /\ UNCHANGED <<jobText, candText, kw2, score, score2, serverVars>>

ReExtract ==
    /\ "keywords" \in calls
    /\ "rejoin" \notin calls
    /\ kw2' = get_keywords(Join(kw))
    /\ calls' = calls \cup {"rejoin"}
    /\ UNCHANGED <<jobText, candText, kw, score, score2, serverVars>>

Score ==
    /\ "score" \notin calls
    /\ score' = calculate_match_score(jobText, candText)
    /\ calls' = calls \cup {"score"}
    /\ UNCHANGED <<jobText, candText, kw, kw2, score2, serverVars>>

NextText == GetKeywords \/ ReExtract \/ Score

SpecText == InitText /\ [][NextText]_vars

----------------------------------------------------------------------------
(* Scoring applied to a job text and a candidate text *)

InitScore ==
    /\ jobText \in ScoreTexts
    /\ candText \in ScoreTexts
    /\ kw = <<>>
    /\ kw2 = <<>>
    /\ score = 0
    /\ score2 = 0
    /\ calls = {}
    /\ InitServer

ScoreSwapped ==
    /\ "swapped" \notin calls
    /\ score2' = calculate_match_score(candText, jobText)
    /\ calls' = calls \cup {"swapped"}
    /\ UNCHANGED <<jobText, candText, kw, kw2, score, serverVars>>

NextScore == GetKeywords \/ Score \/ ScoreSwapped

SpecScore == InitScore /\ [][NextScore]_vars

----------------------------------------------------------------------------
(* Properties of the text functions *)

Empty(text) == text = None \/ text = <<>>

JobKeywordSet  == ToSet(get_keywords(jobText))
CandKeywordSet == ToSet(get_keywords(candText))

\* C1: calculate_match_score returns 0 when the job's keyword set is empty
\* and otherwise min(floor(500 * I / U), 100), I and U the sizes of the
\* intersection and the union of the two keyword sets; the result is an
\* integer in 0..100.
C1_ScoreFormula ==
    "score" \in calls =>
        /\ score \in 0..100
        /\ score = IF JobKeywordSet = {} THEN 0
                   ELSE LET I == Cardinality(JobKeywordSet \cap CandKeywordSet)
                            U == Cardinality(JobKeywordSet \cup CandKeywordSet)
                        IN  IF (500 * I) \div U < 100 THEN (500 * I) \div U ELSE 100

\* One shared keyword out of a union of seven: floor(500/7) = 71.
C1_Witness ==
    /\ "score" \in calls
    /\ Cardinality(JobKeywordSet \cap CandKeywordSet) = 1
    /\ Cardinality(JobKeywordSet \cup CandKeywordSet) = 7
    /\ score = 71

IsToken(w) ==
    /\ w # <<>>
    /\ \A i \in 1..Len(w) : w[i] \in LowerAlnum
    /\ w \notin stopwords

\* C2: every token get_keywords returns is a non-empty string over [a-z0-9]
\* that is not a stopword.
C2_TokensNormalised ==
    "keywords" \in calls => \A i \in 1..Len(kw) : IsToken(kw[i])

\* "a K!" with K the Kelvin sign: the stopword goes, the sign lowers to k,
\* the punctuation is stripped.
C2_Witness ==
    /\ "keywords" \in calls
    /\ jobText = <<"a", " ", "KELVIN", "!">>
    /\ kw = << <<"k">> >>

\* C7: get_keywords of "" or None returns no keywords without raising, and
\* calculate_match_score returns 0 without raising when either argument is
\* "" or None.
C7_EmptyDegrades ==
    /\ "keywords" \in calls /\ Empty(jobText) => kw = <<>>
    /\ "score" \in calls /\ (Empty(jobText) \/ Empty(candText)) => score = 0
    /\ "swapped" \in calls /\ (Empty(jobText) \/ Empty(candText)) => score2 = 0

\* None as the job text against a candidate text that has keywords, scored
\* in both argument positions.
C7_Witness ==
    /\ calls = {"keywords", "score", "swapped"}
    /\ jobText = None
    /\ CandKeywordSet # {}
    /\ kw = <<>> /\ score = 0 /\ score2 = 0

\* C8 as stated: identical non-empty texts score 100.
C8_IdenticalNonEmptyIs100 ==
    "score" \in calls /\ jobText = candText /\ ~Empty(jobText) => score = 100

\* C8 amended: identical texts score 100 when their keyword set is not
\* empty, and 0 when it is (a text of stopwords, punctuation or whitespace
\* only).
C8_IdenticalScore ==
    "score" \in calls /\ jobText = candText =>
        score = IF JobKeywordSet = {} THEN 0 ELSE 100

C8_Witness ==
    /\ "score" \in calls
    /\ jobText = candText
    /\ JobKeywordSet # {}
    /\ score = 100

\* C9: calculate_match_score(A, B) = calculate_match_score(B, A) for all
\* texts A and B, also when a keyword set is empty.
C9_Symmetric ==
    {"score", "swapped"} \subseteq calls => score = score2

\* Different texts with a score strictly between 0 and 100.
C9_Witness ==
    /\ {"score", "swapped"} \subseteq calls
    /\ JobKeywordSet # CandKeywordSet
    /\ score \in 1..99
    /\ score2 = score

\* C10: the keywords of the space-joined keywords of a text are the
\* keywords of the text, as sets.
C10_Idempotent ==
    "rejoin" \in calls => ToSet(kw2) = ToSet(kw)

\* A text that extraction changes: two keywords survive, and the joined
\* keywords are not the text.
C10_Witness ==
    /\ "rejoin" \in calls
    /\ Len(kw) = 2
    /\ Join(kw) # jobText
    /\ kw2 = kw

----------------------------------------------------------------------------
(* Properties of alert processing *)

\* The alerts of the cursor that check_alerts has dealt with so far.
Processed ==
    IF req.pc = "scan" THEN 1..(req.i - 1)
    ELSE IF req.pc = "done" /\ req.status = 200 THEN 1..Len(req.cursor)
    ELSE {}

\* The calls of send_job_alert made for the request's job.
Sent == 1..Len(outbox)

Answered == req.pc = "done" /\ req.status = 200

\* C3: for every address and keyword, the calls of send_job_alert made for
\* the job are as many as the alerts read so far that match the job: one
\* call per matching alert, none for an alert that does not match, and two
\* for two matching alerts of one address.
C3_OncePerMatchingAlert ==
    req.pc \in {"scan", "done"} /\ req.status # 403 =>
        LET Matching == {m \in Processed : AlertMatches(req.cursor[m], req.job_doc)}
            Lowered  == [m \in Processed |-> lower(req.cursor[m].keyword)]
        IN  /\ \A j \in Processed :
                  Cardinality({k \in Sent : /\ outbox[k].email = req.cursor[j].email
                                            /\ outbox[k].keyword = Lowered[j]})
                  = Cardinality({m \in Matching :
                                    /\ req.cursor[m].email = req.cursor[j].email
                                    /\ Lowered[m] = Lowered[j]})
            /\ Cardinality(Sent) = Cardinality(Matching)

\* The request is answered; two alerts of one address with different
\* keywords both match, and the address got two notifications.
C3_Witness ==
    /\ Answered
    /\ \E a, b \in 1..Len(req.cursor) :
          /\ req.cursor[a].email = req.cursor[b].email
          /\ req.cursor[a].keyword # req.cursor[b].keyword
          /\ AlertMatches(req.cursor[a], req.job_doc)
          /\ AlertMatches(req.cursor[b], req.job_doc)
          /\ Cardinality({k \in Sent : outbox[k].email = req.cursor[a].email}) = 2

\* C4: a failed notification neither stops check_alerts nor fails create_job:
\* no request ends in an error, after a failure the scan goes on (every
\* matching alert read so far has had its call, and the request can take
\* its next step), and the answered request has its job stored.
C4_FailureContained ==
    /\ req.status # 500
    /\ req.pc \in {"scan", "done"} /\ req.status # 403 =>
          Cardinality(Sent)
            = Cardinality({m \in Processed : AlertMatches(req.cursor[m], req.job_doc)})
    /\ req.pc \in {"find", "scan"} =>
          ENABLED (CheckAlertsFind \/ CheckAlertsSkip \/ CheckAlertsSend \/ CreateJobRespond)
    /\ Answered =>
          req.job_id \in 1..Len(jobs) /\ jobs[req.job_id] = req.job_doc

\* The request is answered with 200 although the first notification could
\* not be built and the second could not be sent.
C4_Witness ==
    /\ Answered
    /\ req.job_id \in 1..Len(jobs)
    /\ \E k, l \in Sent :
          /\ k < l
          /\ outbox[k].outcome = "message_invalid"
          /\ outbox[l].outcome = "send_failed"

\* C5: an alert read by check_alerts is notified exactly when its
\* lowercased keyword is a substring of the lowercased title or of the
\* lowercased description of the job.
C5_SubstringMatch ==
    LET title       == lower(req.job_doc.title)
        description == lower(req.job_doc.description)
    IN  \A j \in Processed :
            LET keyword == lower(req.cursor[j].keyword)
            IN  (\E k \in Sent : /\ outbox[k].email = req.cursor[j].email
                                 /\ outbox[k].keyword = keyword)
                <=> IsSubstring(keyword, title) \/ IsSubstring(keyword, description)

\* One alert is notified although it shares no keyword with the job's
\* text ("py" in "python dev"); another is not, although its keyword is in
\* the job's company ("acme" in "Acme").
C5_Witness ==
    /\ Answered
    /\ \E a, b \in 1..Len(req.cursor) :
          /\ \E k \in Sent : outbox[k].keyword = lower(req.cursor[a].keyword)
          /\ ToSet(get_keywords(req.cursor[a].keyword))
                \cap ToSet(get_keywords(req.job_doc.title \o <<" ">> \o req.job_doc.description))
                = {}
          /\ req.job_doc.company # None
          /\ IsSubstring(lower(req.cursor[b].keyword), lower(req.job_doc.company))
          /\ \A k \in Sent : outbox[k].keyword # lower(req.cursor[b].keyword)

\* C6: a notification for a job created without a company carries the
\* company "Confidential", and one for a job created without a location the
\* location "Remote"; none carries an absent value.
C6_DefaultsInNotification ==
    \A k \in Sent :
        /\ jobs[req.job_id].company = None => outbox[k].company = <<"Confidential">>
        /\ jobs[req.job_id].location = None => outbox[k].location = <<"Remote">>
        /\ outbox[k].company # None
        /\ outbox[k].location # None

\* The job of the request in flight is in db.jobs.
JobStored == \E j \in 1..Len(jobs) : jobs[j] = req.job_doc

\* C11: alert processing is synchronous within create_job: send_job_alert
\* is called only after the job is inserted and before the request is
\* answered, and the request is answered 200 only with the job inserted and
\* a call made for every matching alert that check_alerts read.
C11_Synchronous ==
    [][ /\ (outbox' # outbox /\ outbox' # <<>>) =>
              /\ req.pc = "scan"
              /\ req.status = 0
              /\ JobStored
        /\ (req'.status = 200 /\ req.status # 200) =>
              /\ JobStored
              /\ req.pc = "scan"
              /\ outbox' = outbox
              /\ \A m \in 1..Len(req.cursor) :
                    AlertMatches(req.cursor[m], req.job_doc) =>
                        \E k \in Sent :
                            /\ outbox[k].email = req.cursor[m].email
                            /\ outbox[k].keyword = lower(req.cursor[m].keyword)
      ]_vars

\* A request answered after reading two alerts, one of which matched.
C11_Witness ==
    /\ Answered
    /\ JobStored
    /\ Len(req.cursor) = 2
    /\ Len(outbox) = 1

----------------------------------------------------------------------------
(* Properties of the accounts, jobs and applications *)

\* The documents of a collection.
Docs(coll) == {coll[k] : k \in 1..Len(coll)}

\* C12: match scores are never persisted: recruiter_applications leaves
\* users, jobs, applications and alerts as they are, no stored application
\* holds a match score, and the score of every entry of the response is
\* the one computed from the job and the candidate stored when it is called.
C12_ScoresNotPersisted ==
    /\ \A app \in Docs(applications) : "match_score" \notin DOMAIN app
    /\ \A current \in Authenticated, pdf_ok \in BOOLEAN :
          LET r == recruiter_applications(current, pdf_ok)
          IN  /\ r.db = [users |-> users, jobs |-> jobs,
                         applications |-> applications, alerts |-> alerts]
              /\ \A k \in 1..Len(r.listing) :
                    LET app  == FindOne(applications, "_id", r.listing[k].id)
                        job  == FindOne(jobs, "_id", app.job)
                        cand == FindOne(users, "_id", app.candidate)
                    IN  /\ job.recruiter = current._id
                        /\ r.listing[k].match_score
                             = calculate_match_score(
                                 job.title \o <<" ">> \o job.description
                                     \o <<" ">> \o Str(job.company),
                                 IF cand.resume # None /\ pdf_ok
                                 THEN UploadText(cand.resume)
                                 ELSE cand.name \o <<" ">> \o RoleText[cand.role]
                                      \o <<" ">> \o cand.username)

\* A recruiter's listing holds an application scored 100 from the resume
\* when the file can be read and 0 from the name, role and username when
\* it cannot.
C12_Witness ==
    \E current \in Authenticated :
        /\ current.role = "recruiter"
        /\ Len(recruiter_applications(current, TRUE).listing) = 1
        /\ recruiter_applications(current, TRUE).listing[1].match_score = 100
        /\ recruiter_applications(current, FALSE).listing[1].match_score = 0

\* C13: the only admin is the static one: no stored user has the role
\* admin, and no token issued for a stored user resolves to a caller that
\* passes the admin-only checks.
C13_SingleAdmin ==
    /\ \A user \in Docs(users) : user.role # "admin"
    /\ \A sub \in tokens \ {StaticAdminId} :
          get_current_user(sub).code = 200 =>
              /\ get_current_user(sub).user.role # "admin"
              /\ \A job_id \in JobIds :
                    admin_update_job_status(get_current_user(sub).user,
                                            job_id, "approved").code = 403

JobStatuses == {"pending", "approved", "rejected"}

\* C14: the moderation gate: a job enters db.jobs with the status pending
\* whatever status the request asked for, a stored job's status is one of
\* pending, approved and rejected and changes only by a call of
\* admin_update_job_status by a caller whose role is admin, and get_jobs
\* returns approved jobs only.
C14_ModerationGate ==
    /\ [] /\ \A job \in Docs(jobs) : job.status \in JobStatuses
          /\ \A filter \in JobFilters :
                \A job \in Docs(get_jobs(filter)) :
                    job \in Docs(jobs) /\ job.status = "approved"
          /\ \A current \in Authenticated, body \in JobBodies :
                LET r == create_job(current, body)
                IN  r.code = 200 => r.jobs[Len(r.jobs)].status = "pending"
    /\ [][ \A new \in Docs(jobs') :
              /\ (\A old \in Docs(jobs) : old._id # new._id) =>
                      new.status = "pending"
              /\ \A old \in Docs(jobs) :
                    (old._id = new._id /\ old.status # new.status) =>
                        \E current \in Authenticated :
                            /\ current.role = "admin"
                            /\ admin_update_job_status(current, old._id, new.status)
                                  = [code |-> 200, jobs |-> jobs']
      ]_vars

\* The static admin has approved a job that asked for the status approved
\* when it was posted, and the unfiltered public listing shows it.
C14_Witness ==
    /\ StaticAdminId \in tokens
    /\ \A user \in Docs(users) : user.role # "admin"
    /\ \E filter \in JobFilters :
          /\ filter.keyword = None
          /\ Len(get_jobs(filter)) = 1
          /\ get_jobs(filter)[1].status = "approved"

\* C15: a candidate has at most one application per job, also when
\* requests to apply interleave at their awaited calls: no two stored
\* applications share the job and the candidate, and of the requests of
\* one candidate for one job at most one is answered 200.
C15_OneApplicationPerJob ==
    /\ \A a, b \in 1..Len(applications) :
          (applications[a].job = applications[b].job
             /\ applications[a].candidate = applications[b].candidate) => a = b
    /\ \A m, n \in 1..Len(inflight) :
          (/\ inflight[m].code = 200
           /\ inflight[n].code = 200
           /\ inflight[m].job_id = inflight[n].job_id
           /\ inflight[m].current._id = inflight[n].current._id) => m = n

\* C16: with handlers that run to completion, every application's job
\* and candidate and every job's recruiter are stored; a successful
\* admin_delete_user leaves no job of a deleted recruiter, no application
\* to such a job and no application of a deleted candidate.
C16_ReferentialIntegrity ==
    /\ \A app \in Docs(applications) :
          /\ FindOne(jobs, "_id", app.job) # NoDoc
          /\ FindOne(users, "_id", app.candidate) # NoDoc
    /\ \A job \in Docs(jobs) : FindOne(users, "_id", job.recruiter) # NoDoc
    /\ \A current \in Authenticated, user_id \in UserIdInputs :
          LET r      == admin_delete_user(current, user_id)
              user   == FindOne(users, "_id", user_id)
              posted == {job._id : job \in {j \in Docs(jobs) : j.recruiter = user_id}}
          IN  r.code = 200 =>
                /\ current.role = "admin"
                /\ user # NoDoc
                /\ \A u \in Docs(r.users) : u._id # user_id
                /\ user.role = "recruiter" =>
                      /\ \A job \in Docs(r.jobs) : job.recruiter # user_id
                      /\ \A app \in Docs(r.applications) : app.job \notin posted
                /\ user.role = "candidate" =>
                      \A app \in Docs(r.applications) : app.candidate # user_id

\* Of the two users ever registered the candidate is left: the recruiter
\* was deleted, and the one job posted and the one application to it went
\* with it.
C16_Witness ==
    /\ oids = [users |-> 2, jobs |-> 1, applications |-> 1]
    /\ Len(users) = 1
    /\ users[1].role = "candidate"
    /\ jobs = <<>>
    /\ applications = <<>>

AppStatuses == {"pending", "selected", "rejected"}

\* C17: update_application_status answers 200 exactly when the caller is
\* a recruiter, the application exists, its job is stored and is the
\* caller's, and the status asked for is one of pending, selected and
\* rejected; then only that application's status, and its message if one
\* is given, change.  In every other case it answers 403, 404 or 400 and
\* leaves db.applications as it is.  Every stored application's status
\* is one of the three.
C17_GuardedStatusUpdate ==
    /\ \A app \in Docs(applications) : app.status \in AppStatuses
    /\ \A current \in Authenticated, app_id \in AppIds, payload \in StatusUpdates :
          LET r     == update_application_status(current, app_id, payload.status,
                                                 payload.message)
              app   == FindOne(applications, "_id", app_id)
              job   == IF app = NoDoc THEN NoDoc ELSE FindOne(jobs, "_id", app.job)
              allow == /\ current.role = "recruiter"
                       /\ app # NoDoc
                       /\ job # NoDoc
                       /\ job.recruiter = current._id
                       /\ payload.status \in AppStatuses
          IN  IF allow
              THEN /\ r.code = 200
                   /\ Len(r.applications) = Len(applications)
                   /\ \A k \in 1..Len(applications) :
                         IF applications[k]._id = app_id
                         THEN r.applications[k] =
                                [applications[k] EXCEPT
                                    !.status = payload.status,
                                    !.message = IF payload.message # None
                                                THEN payload.message ELSE @]
                         ELSE r.applications[k] = applications[k]
              ELSE /\ r.code \in {400, 403, 404}
                   /\ r.applications = applications

\* Two recruiters are registered; the application to the job of one of
\* them has been selected with a message, and the other recruiter's
\* request to reject it is answered 403.
C17_Witness ==
    \E owner, other \in Authenticated :
        /\ owner.role = "recruiter"
        /\ other.role = "recruiter"
        /\ owner # other
        /\ \E app \in Docs(applications) :
              /\ app.status = "selected"
              /\ app.message = <<"o","k">>
              /\ FindOne(jobs, "_id", app.job).recruiter = owner._id
              /\ update_application_status(other, app._id, "rejected", None).code = 403
====
